---- MODULE Spec2Model ----
(***************************************************************************)
(* Model of rest-app.py: load_auth_credentials, determine_record_key and   *)
(* the pagination loop of fetch_data.                                      *)
(*                                                                         *)
(* Python strings are sequences of one-character strings, so that          *)
(* str.split, urljoin and iteration over a string are computed, not        *)
(* assumed.  JSON values are records [t, v]: t is the JSON type and v the  *)
(* payload (the characters of a string, the items of an array).            *)
(***************************************************************************)
EXTENDS Integers, Sequences, FiniteSets, TLC

\* Bound on the number of GET requests one run of fetch_data may issue.
MaxRequests == 3
\* Bound on the length of the endpoint paths given to determine_record_key.
MaxPathLen == 3

\* The only status fetch_data accepts (line 70).
HTTP_OK == 200

---------------------------------------------------------------------------
\* JSON values as json.load / response.json() produce them

JNull == [t |-> "null", v |-> <<>>]
JStr(s) == [t |-> "str", v |-> s]
JList(l) == [t |-> "list", v |-> l]
JNum(d) == [t |-> "num", v |-> <<d>>]

\* Python truthiness, as used by `or`, `not`, `while` and `if`.
Truthy(x) ==
  CASE x.t = "null" -> FALSE
    [] x.t = "num" -> x.v # <<"0">>
    [] OTHER -> x.v # <<>>

\* A JSON object keeps the order of its keys: a sequence of [k, v] items.
JObj(items) == [t |-> "obj", items |-> items]
\* A 200 body that is not a JSON object (not JSON at all, or an array/scalar).
NotObject == [t |-> "other", items |-> <<>>]
\* last_response before its first assignment.
Unbound == [t |-> "unbound", items |-> <<>>]
\* The second element of the tuple returned on line 72.
NoBody == [t |-> "none", items |-> <<>>]

HasKey(obj, key) == \E i \in 1..Len(obj.items) : obj.items[i].k = key

\* dict.get(key, default)
DictGet(obj, key, default) ==
  IF HasKey(obj, key)
    THEN obj.items[CHOOSE i \in 1..Len(obj.items) : obj.items[i].k = key].v
    ELSE default

---------------------------------------------------------------------------
\* String helpers

\* str.find(c) + 1: the first position of c in s, 0 when absent.
IndexOf(s, c) ==
  IF \E i \in 1..Len(s) : s[i] = c
    THEN CHOOSE i \in 1..Len(s) : s[i] = c /\ \A j \in 1..(i - 1) : s[j] # c
    ELSE 0

\* str.split(sep) for a one-character separator.
RECURSIVE Split(_, _)
Split(s, sep) ==
  LET i == IndexOf(s, sep)
  IN IF i = 0 THEN <<s>>
     ELSE <<SubSeq(s, 1, i - 1)>> \o Split(SubSeq(s, i + 1, Len(s)), sep)

\* sep.join(parts)
RECURSIVE Join(_, _)
Join(parts, sep) ==
  IF parts = <<>> THEN <<>>
  ELSE IF Len(parts) = 1 THEN parts[1]
  ELSE parts[1] \o <<sep>> \o Join(Tail(parts), sep)

Last(seq) == seq[Len(seq)]

---------------------------------------------------------------------------
\* urllib.parse.urljoin, for references without query, fragment or dot
\* segments.  The scheme "s" stands for https (relative and netloc-based).

SchemeChars == {"s"}

\* urlsplit: the position of the ":" that ends a scheme, 0 without a scheme.
SchemeEnd(url) ==
  IF \E c \in 2..Len(url) : url[c] = ":" /\ \A j \in 1..(c - 1) : url[j] \in SchemeChars
    THEN IndexOf(url, ":")
    ELSE 0

UrlScheme(url, default_scheme) ==
  IF SchemeEnd(url) > 0 THEN SubSeq(url, 1, SchemeEnd(url) - 1) ELSE default_scheme

AfterScheme(url) == SubSeq(url, SchemeEnd(url) + 1, Len(url))

\* urlsplit: a "//" after the scheme starts the netloc, which ends at the next "/".
SplitNetloc(rest) ==
  IF Len(rest) >= 2 /\ rest[1] = "/" /\ rest[2] = "/"
    THEN IF IndexOf(SubSeq(rest, 3, Len(rest)), "/") = 0
           THEN [netloc |-> SubSeq(rest, 3, Len(rest)), path |-> <<>>]
           ELSE [netloc |-> SubSeq(rest, 3, 1 + IndexOf(SubSeq(rest, 3, Len(rest)), "/")),
                 path |-> SubSeq(rest, 2 + IndexOf(SubSeq(rest, 3, Len(rest)), "/"),
                                 Len(rest))]
    ELSE [netloc |-> <<>>, path |-> rest]

UrlNetloc(url) == SplitNetloc(AfterScheme(url)).netloc
UrlPath(url) == SplitNetloc(AfterScheme(url)).path

urlunparse(scheme, netloc, path) ==
  (IF scheme # <<>> THEN scheme \o <<":">> ELSE <<>>)
  \o <<"/", "/">> \o netloc
  \o (IF path # <<>> /\ path[1] # "/" THEN <<"/">> ELSE <<>>) \o path

\* segments[1:-1] = filter(None, segments[1:-1])
FilterMiddle(segments) ==
  IF Len(segments) < 2 THEN segments
  ELSE <<segments[1]>>
       \o SelectSeq(SubSeq(segments, 2, Len(segments) - 1), LAMBDA x : x # <<>>)
       \o <<Last(segments)>>

\* base_parts: the segments of the base path without its last one.
BaseParts(parts) ==
  IF Last(parts) # <<>> THEN SubSeq(parts, 1, Len(parts) - 1) ELSE parts

\* The path of the joined URL, for a reference with a path.
MergePath(bpath, path) ==
  IF path[1] = "/" THEN path
  ELSE Join(FilterMiddle(BaseParts(Split(bpath, "/")) \o Split(path, "/")), "/")

urljoin(base, url) ==
  IF base = <<>> THEN url
  ELSE IF url = <<>> THEN base
  ELSE IF UrlScheme(url, UrlScheme(base, <<>>)) # UrlScheme(base, <<>>) THEN url
  ELSE IF UrlNetloc(url) # <<>>
    THEN urlunparse(UrlScheme(base, <<>>), UrlNetloc(url), UrlPath(url))
  ELSE IF UrlPath(url) = <<>>
    THEN urlunparse(UrlScheme(base, <<>>), UrlNetloc(base), UrlPath(base))
  ELSE urlunparse(UrlScheme(base, <<>>), UrlNetloc(base),
                  MergePath(UrlPath(base), UrlPath(url)))

---------------------------------------------------------------------------
\* determine_record_key (lines 41-53)

NEXT_PAGE_URL == <<"n", "e", "x", "t", "P", "a", "g", "e", "U", "r", "l">>
RECORDS == <<"r", "e", "c", "o", "r", "d", "s">>

\* Variant: the endpoint key is taken from the first path segment.
determine_record_key_head(endpoint_path, response_json) ==
  LET endpoint_key == Split(endpoint_path, "/")[1]
  IN IF HasKey(response_json, endpoint_key) THEN endpoint_key
     ELSE IF response_json.items # <<>> THEN response_json.items[1].k
     ELSE RECORDS

determine_record_key(endpoint_path, response_json) ==
  LET endpoint_key == Last(Split(endpoint_path, "/"))
  IN IF HasKey(response_json, endpoint_key) THEN endpoint_key
     ELSE IF response_json.items # <<>> THEN response_json.items[1].k
     ELSE RECORDS

---------------------------------------------------------------------------
\* load_auth_credentials (lines 19-38)

AuthFields == {"access_token", "accessToken", "instance_url", "instanceUrl"}
AuthVals == {JNull, JStr(<<>>), JStr(<<"k">>), JStr(<<"K">>)}
\* The JSON objects an uploaded auth.json may hold.
AuthObjects == UNION {[D -> AuthVals] : D \in SUBSET AuthFields}
NoAuth == [f \in {} |-> JNull]
NoCreds == [access_token |-> JNull, instance_url |-> JNull]

\* dict.get(field): None when the field is absent.
AuthGet(auth, field) == IF field \in DOMAIN auth THEN auth[field] ELSE JNull

\* Python's `a or b`.
PyOr(a, b) == IF Truthy(a) THEN a ELSE b

\* Variant: the check on line 32 uses `and`.
load_auth_credentials_and(auth) ==
  LET access_token == PyOr(AuthGet(auth, "access_token"), AuthGet(auth, "accessToken"))
      instance_url_ == PyOr(AuthGet(auth, "instance_url"), AuthGet(auth, "instanceUrl"))
  IN IF ~Truthy(access_token) /\ ~Truthy(instance_url_)
       THEN [ok |-> FALSE, creds |-> NoCreds]
       ELSE [ok |-> TRUE,
             creds |-> [access_token |-> access_token, instance_url |-> instance_url_]]

\* Variant: the camelCase spelling is looked up first.
load_auth_credentials_camel(auth) ==
  LET access_token == PyOr(AuthGet(auth, "accessToken"), AuthGet(auth, "access_token"))
      instance_url_ == PyOr(AuthGet(auth, "instanceUrl"), AuthGet(auth, "instance_url"))
  IN IF ~Truthy(access_token) \/ ~Truthy(instance_url_)
       THEN [ok |-> FALSE, creds |-> NoCreds]
       ELSE [ok |-> TRUE,
             creds |-> [access_token |-> access_token, instance_url |-> instance_url_]]

\* ok = FALSE is the ValueError of line 33.
load_auth_credentials(auth) ==
  LET access_token == PyOr(AuthGet(auth, "access_token"), AuthGet(auth, "accessToken"))
      instance_url_ == PyOr(AuthGet(auth, "instance_url"), AuthGet(auth, "instanceUrl"))
  IN IF ~Truthy(access_token) \/ ~Truthy(instance_url_)
       THEN [ok |-> FALSE, creds |-> NoCreds]
       ELSE [ok |-> TRUE,
             creds |-> [access_token |-> access_token, instance_url |-> instance_url_]]

---------------------------------------------------------------------------
\* The inputs of fetch_data and the answers a server may give

Item(k, v) == [k |-> k, v |-> v]

InstanceUrls == {<<"s", ":", "/", "/", "h">>, <<"s", ":", "/", "/", "h", "/", "v", "/">>}
EndpointPaths == {<<"/", "w", "/", "r">>, <<"/", "q">>}
\* The key that the endpoint /w/r names, and a leading scalar such as totalSize.
KeyR == <<"r">>
KeyTotal == <<"t">>
RecLists == {<<"x">>, <<"y", "x">>}
\* Values of the nextPageUrl field: null, "", a rooted reference, a relative
\* reference, an absolute URL.
NextVals == {JNull, JStr(<<>>), JStr(<<"/", "a">>), JStr(<<"c">>),
             JStr(<<"s", ":", "/", "/", "h", "/", "b">>)}
Bodies ==
  {JObj(<<>>), NotObject}
  \cup {JObj(<<Item(KeyR, JList(l))>>) : l \in RecLists}
  \cup {JObj(<<Item(NEXT_PAGE_URL, n)>>) : n \in {JNull, JStr(<<>>)}}
  \cup {JObj(<<Item(KeyR, JList(l)), Item(NEXT_PAGE_URL, n)>>) :
          l \in RecLists, n \in NextVals}
  \cup {JObj(<<Item(NEXT_PAGE_URL, n), Item(KeyR, JList(l))>>) :
          l \in RecLists, n \in NextVals}
  \cup {JObj(<<Item(KeyTotal, JNum("2")), Item(KeyR, JList(l))>>) : l \in RecLists}
  \cup {JObj(<<Item(KeyTotal, JNum("2")), Item(KeyR, JList(l)),
               Item(NEXT_PAGE_URL, JStr(<<"/", "a">>))>>) : l \in RecLists}
Statuses == {HTTP_OK, 204, 500}

\* The inputs of determine_record_key when it is checked on its own.
PathChars == {"/", "r", "q"}
KeyPaths == UNION {[1..n -> PathChars] : n \in 0..MaxPathLen}
KeyNames == {<<"r">>, <<"q">>, <<>>}
KeyObjects ==
  {JObj(<<>>)}
  \cup {JObj(<<Item(a, JList(<<>>))>>) : a \in KeyNames}
  \cup {JObj(<<Item(p[1], JList(<<>>)), Item(p[2], JList(<<>>))>>) :
          p \in {q \in KeyNames \X KeyNames : q[1] # q[2]}}

---------------------------------------------------------------------------
VARIABLES
  pc,             \* where fetch_data is: loop, wait, break, returned, failed, raised
  instance_url, endpoint_path, all_pages,  \* parameters of fetch_data
  full_url, all_records, last_response,    \* locals of fetch_data
  result,         \* the tuple fetch_data returned
  requests,       \* the URLs of the GET requests issued, in order
  responses,      \* what requests.get produced for each, in order
  kpc, key_path, key_json, key_result,     \* a call of determine_record_key
  apc, auth_data, creds                    \* a call of load_auth_credentials

fvars == <<pc, instance_url, endpoint_path, all_pages, full_url, all_records, last_response,
           result, requests, responses>>
kvars == <<kpc, key_path, key_json, key_result>>
avars == <<apc, auth_data, creds>>
vars == <<fvars, kvars, avars>>

NoResult == [data |-> JNull, last |-> Unbound]
NoneNone == [data |-> JNull, last |-> NoBody]

FetchIdle ==
  /\ pc = "idle" /\ instance_url = <<>> /\ endpoint_path = <<>> /\ all_pages = FALSE
  /\ full_url = JNull /\ all_records = <<>> /\ last_response = Unbound
  /\ result = NoResult /\ requests = <<>> /\ responses = <<>>
KeyIdle == kpc = "idle" /\ key_path = <<>> /\ key_json = JObj(<<>>) /\ key_result = JNull
AuthIdle == apc = "idle" /\ auth_data = NoAuth /\ creds = NoCreds

---------------------------------------------------------------------------
\* fetch_data (lines 55-87)

\* Entry: line 66, called from main (line 145) with the URL formed on
\* line 135.
FetchInit ==
  /\ pc = "loop"
  /\ instance_url \in InstanceUrls
  /\ endpoint_path \in EndpointPaths
  /\ all_pages \in BOOLEAN
  /\ full_url = JStr(urljoin(instance_url, endpoint_path))
  /\ all_records = <<>>
  /\ last_response = Unbound
  /\ result = NoResult
  /\ requests = <<>>
  /\ responses = <<>>

\* Variant: the next request goes out without waiting for the answer.
Get_pipelined ==
  /\ pc \in {"loop", "wait"}
  /\ Truthy(full_url)
  /\ Len(requests) < MaxRequests
  /\ pc' = "wait"
  /\ requests' = Append(requests, full_url.v)
  /\ UNCHANGED <<instance_url, endpoint_path, all_pages, full_url, all_records, last_response,
                 result, responses, kvars, avars>>

\* Variant: a URL already requested is not requested again.
Get_visited ==
  /\ pc = "loop"
  /\ Truthy(full_url)
  /\ \A i \in 1..Len(requests) : requests[i] # full_url.v
  /\ Len(requests) < MaxRequests
  /\ pc' = "wait"
  /\ requests' = Append(requests, full_url.v)
  /\ UNCHANGED <<instance_url, endpoint_path, all_pages, full_url, all_records, last_response,
                 result, responses, kvars, avars>>

\* Lines 67-68: the loop test holds and the GET request is issued.
Get ==
  /\ pc = "loop"
  /\ Truthy(full_url)
  /\ Len(requests) < MaxRequests
  /\ pc' = "wait"
  /\ requests' = Append(requests, full_url.v)
  /\ UNCHANGED <<instance_url, endpoint_path, all_pages, full_url, all_records, last_response,
                 result, responses, kvars, avars>>

\* Line 68: requests.get raises (no connection, ...); fetch_data catches nothing.
RecvRaise ==
  /\ pc = "wait"
  /\ responses' = Append(responses, [kind |-> "exc", status |-> 0, body |-> NoBody])
  /\ pc' = "raised"
  /\ UNCHANGED <<instance_url, endpoint_path, all_pages, full_url, all_records, last_response,
                 result, requests, kvars, avars>>

\* Variant: the records collected so far are handed back.
RecvNon200_partial ==
  /\ pc = "wait"
  /\ \E s \in Statuses \ {HTTP_OK} :
       responses' = Append(responses, [kind |-> "http", status |-> s, body |-> NoBody])
  /\ pc' = "failed"
  /\ result' = [data |-> JList(all_records), last |-> NoBody]
  /\ UNCHANGED <<instance_url, endpoint_path, all_pages, full_url, all_records, last_response,
                 requests, kvars, avars>>

\* Lines 70-72: any status but 200 returns (None, None).
RecvNon200 ==
  /\ pc = "wait"
  /\ \E s \in Statuses \ {HTTP_OK} :
       responses' = Append(responses, [kind |-> "http", status |-> s, body |-> NoBody])
  /\ pc' = "failed"
  /\ result' = NoneNone
  /\ UNCHANGED <<instance_url, endpoint_path, all_pages, full_url, all_records, last_response,
                 requests, kvars, avars>>

\* Line 77: what list.extend appends; strings are iterated by character,
\* a number or null raises TypeError.
Iterable(val) == val.t \in {"list", "str"}

RecordValue(body) ==
  DictGet(body, determine_record_key(endpoint_path, body), JList(<<>>))

\* Variant: each page is put in front of what was collected.
Extended_prepend(body) == RecordValue(body).v \o all_records

\* Lines 76-77.
Extended(body) == all_records \o RecordValue(body).v

\* Variant: a page without a next-page link leaves full_url as it was.
NextUrl_keep(body) ==
  LET n == DictGet(body, NEXT_PAGE_URL, JNull)
  IN IF Truthy(n) THEN JStr(urljoin(instance_url, n.v)) ELSE full_url

\* Lines 81-83.
NextUrl(body) ==
  LET n == DictGet(body, NEXT_PAGE_URL, JNull)
  IN IF Truthy(n) THEN JStr(urljoin(instance_url, n.v)) ELSE n

Step(p, url, recs, last) ==
  [pc |-> p, full_url |-> url, all_records |-> recs, last_response |-> last]

\* Variant: the all_pages flag is not consulted.
ProcessBody_follow(body) ==
  IF body.t # "obj" THEN Step("raised", full_url, all_records, last_response)
  ELSE IF ~Iterable(RecordValue(body))
    THEN Step("raised", full_url, all_records, body)
  ELSE Step("loop", NextUrl(body), Extended(body), body)

\* Lines 74-85, for the body of a 200 response.
ProcessBody(body) ==
  IF body.t # "obj" THEN Step("raised", full_url, all_records, last_response)
  ELSE IF ~Iterable(RecordValue(body))
    THEN Step("raised", full_url, all_records, body)
  ELSE IF all_pages THEN Step("loop", NextUrl(body), Extended(body), body)
  ELSE Step("break", full_url, Extended(body), body)

\* Lines 68-85: a 200 response arrives and the rest of the loop body runs.
Recv200 ==
  /\ pc = "wait"
  /\ \E body \in Bodies :
       LET s == ProcessBody(body)
       IN /\ responses' = Append(responses,
                                 [kind |-> "http", status |-> HTTP_OK, body |-> body])
          /\ pc' = s.pc
          /\ full_url' = s.full_url
          /\ all_records' = s.all_records
          /\ last_response' = s.last_response
  /\ UNCHANGED <<instance_url, endpoint_path, all_pages, result, requests, kvars, avars>>

\* Variant: the body of the first page is returned.
Return_first ==
  /\ \/ pc = "loop" /\ ~Truthy(full_url)
     \/ pc = "break"
  /\ IF last_response = Unbound
       THEN pc' = "raised" /\ UNCHANGED result
       ELSE /\ pc' = "returned"
            /\ result' = [data |-> JList(all_records), last |-> responses[1].body]
  /\ UNCHANGED <<instance_url, endpoint_path, all_pages, full_url, all_records, last_response,
                 requests, responses, kvars, avars>>

\* Line 87, reached when the loop test fails or by the break of line 85.
\* Were no request made, last_response would be unbound and the return raise.
Return ==
  /\ \/ pc = "loop" /\ ~Truthy(full_url)
     \/ pc = "break"
  /\ IF last_response = Unbound
       THEN pc' = "raised" /\ UNCHANGED result
       ELSE /\ pc' = "returned"
            /\ result' = [data |-> JList(all_records), last |-> last_response]
  /\ UNCHANGED <<instance_url, endpoint_path, all_pages, full_url, all_records, last_response,
                 requests, responses, kvars, avars>>

Init == FetchInit /\ KeyIdle /\ AuthIdle
Next == Get \/ Recv200 \/ RecvNon200 \/ RecvRaise \/ Return
Spec == Init /\ [][Next]_vars

---------------------------------------------------------------------------
\* Vocabulary of the properties.  These are written from the statements
\* being checked, not from the code: the record key is inferred by the rule
\* "last path segment if it is a key, else the first key".

NumResponses == Len(responses)

LastSlash(path) ==
  IF \E i \in 1..Len(path) : path[i] = "/"
    THEN CHOOSE i \in 1..Len(path) :
           path[i] = "/" /\ \A j \in (i + 1)..Len(path) : path[j] # "/"
    ELSE 0

LastSegmentOf(path) == SubSeq(path, LastSlash(path) + 1, Len(path))

\* The value holding the records of a non-empty page.
PageValue(path, body) ==
  IF HasKey(body, LastSegmentOf(path))
    THEN DictGet(body, LastSegmentOf(path), JNull)
    ELSE body.items[1].v

IsOk(r) == r.kind = "http" /\ r.status = HTTP_OK

\* A 200 response whose body is an object holding a record array (or nothing).
WellFormedPage(path, r) ==
  /\ IsOk(r)
  /\ r.body.t = "obj"
  /\ r.body.items # <<>> => PageValue(path, r.body).t = "list"

PageRecords(path, r) ==
  IF r.body.items = <<>> THEN <<>> ELSE PageValue(path, r.body).v

\* The response carries a non-empty nextPageUrl string.
SuppliesNext(r) ==
  /\ IsOk(r)
  /\ r.body.t = "obj"
  /\ HasKey(r.body, NEXT_PAGE_URL)
  /\ DictGet(r.body, NEXT_PAGE_URL, JNull).t = "str"
  /\ DictGet(r.body, NEXT_PAGE_URL, JNull).v # <<>>

\* The response carries no nextPageUrl: absent, null or empty.
NoNext(r) ==
  /\ IsOk(r)
  /\ r.body.t = "obj"
  /\ \/ ~HasKey(r.body, NEXT_PAGE_URL)
     \/ DictGet(r.body, NEXT_PAGE_URL, JNull) \in {JNull, JStr(<<>>)}

RECURSIVE ConcatPages(_, _)
ConcatPages(path, rs) ==
  IF rs = <<>> THEN <<>>
  ELSE PageRecords(path, Head(rs)) \o ConcatPages(path, Tail(rs))

\* fetch_data has returned, raised, or is about to leave the loop.
Stopped ==
  \/ pc \in {"returned", "failed", "raised"}
  \/ pc = "loop" /\ ~Truthy(full_url)

Running == pc = "wait" \/ (pc = "loop" /\ Truthy(full_url))

\* C1 as stated: whenever fetch_data returns, all_pages or not, it has made
\* one request per page of the chain (every page but the last one received
\* supplies a nextPageUrl, the last one does not) and returns the pages'
\* record arrays concatenated in page order.
C1_AsStated ==
  (/\ pc = "returned"
   /\ \A k \in 1..NumResponses :
        /\ WellFormedPage(endpoint_path, responses[k])
        /\ SuppliesNext(responses[k]) \/ NoNext(responses[k]))
  => /\ NumResponses >= 1
     /\ Len(requests) = NumResponses
     /\ \A k \in 1..(NumResponses - 1) : SuppliesNext(responses[k])
     /\ NoNext(responses[NumResponses])
     /\ result.data = JList(ConcatPages(endpoint_path, responses))

\* C1 amended: with all_pages True, a chain of N well-formed 200 pages, each
\* but the last supplying a non-empty nextPageUrl, is fetched with exactly N
\* requests and the record arrays are returned concatenated in page order:
\* the run goes on while pages supply a link, returns only on a page without
\* one, and fails or raises only on a response that is not such a page.
C1_PagesInOrder ==
  all_pages =>
    /\ pc = "returned" =>
         /\ NumResponses >= 1
         /\ Len(requests) = NumResponses
         /\ \A k \in 1..(NumResponses - 1) : SuppliesNext(responses[k])
         /\ NoNext(responses[NumResponses])
         /\ (\A k \in 1..NumResponses : WellFormedPage(endpoint_path, responses[k]))
              => result.data = JList(ConcatPages(endpoint_path, responses))
    /\ (pc \in {"failed", "raised"} /\ NumResponses >= 1) =>
         ~ \A k \in 1..NumResponses :
             /\ WellFormedPage(endpoint_path, responses[k])
             /\ SuppliesNext(responses[k]) \/ NoNext(responses[k])
    /\ Running => \A k \in 1..NumResponses : SuppliesNext(responses[k])

C1_Witness ==
  /\ pc = "returned" /\ all_pages
  /\ NumResponses = 3
  /\ \A k \in 1..3 : WellFormedPage(endpoint_path, responses[k])
  /\ PageRecords(endpoint_path, responses[1]) = <<"y", "x">>
  /\ PageRecords(endpoint_path, responses[2]) = <<"x">>
  /\ PageRecords(endpoint_path, responses[3]) = <<"y", "x">>
  /\ result.data = JList(<<"y", "x", "x", "y", "x">>)

C3_Non200Discards ==
  \A k \in 1..NumResponses :
    (responses[k].kind = "http" /\ responses[k].status # HTTP_OK)
    => /\ k = NumResponses
       /\ Len(requests) = k
       /\ pc = "failed"
       /\ result = NoneNone

C3_Witness ==
  /\ pc = "failed"
  /\ NumResponses = 3
  /\ all_records # <<>>
  /\ result = NoneNone

\* C7: with all_pages False exactly one request is made, also when the
\* response carries a nextPageUrl, and the records returned are the first
\* page's.
C7_FirstPageOnly ==
  (~all_pages /\ pc # "idle") =>
    /\ Len(requests) = (IF pc = "loop" THEN 0 ELSE 1)
    /\ pc = "returned" =>
         /\ NumResponses = 1
         /\ WellFormedPage(endpoint_path, responses[1])
              => result.data = JList(PageRecords(endpoint_path, responses[1]))

C7_Witness ==
  /\ pc = "returned" /\ ~all_pages
  /\ SuppliesNext(responses[1])
  /\ WellFormedPage(endpoint_path, responses[1])
  /\ result.data = JList(<<"x">>)

\* C8: at most one request is outstanding; request k+1 is issued only after
\* response k has arrived with status 200 and a non-empty nextPageUrl, and it
\* goes to that link resolved against the instance URL.
C8_OneAtATime ==
  /\ Len(requests) - NumResponses = (IF pc = "wait" THEN 1 ELSE 0)
  /\ \A k \in 1..(Len(requests) - 1) :
       /\ k <= NumResponses
       /\ SuppliesNext(responses[k])
       /\ requests[k + 1] =
            urljoin(instance_url, DictGet(responses[k].body, NEXT_PAGE_URL, JNull).v)

C8_Witness ==
  /\ pc = "wait"
  /\ Len(requests) = 3
  /\ NumResponses = 2
  /\ requests[2] # requests[3]

\* C9: when fetch_data returns normally every response had status 200, the
\* first element of the tuple is a list and the second is the body of the
\* last response.
C9_LastBody ==
  pc = "returned" =>
    /\ NumResponses >= 1
    /\ \A k \in 1..NumResponses : IsOk(responses[k])
    /\ result.data.t = "list"
    /\ result.last = responses[NumResponses].body

C9_Witness ==
  /\ pc = "returned"
  /\ NumResponses = 2
  /\ responses[1].body # responses[2].body
  /\ result.last = responses[2].body
  /\ result.data = JList(<<"x", "y", "x">>)

\* The response lets the loop go round again: a 200 whose body is an object
\* with something iterable under the record key and a non-empty nextPageUrl
\* string.
Continues(path, r) ==
  /\ SuppliesNext(r)
  /\ r.body.items # <<>> => PageValue(path, r.body).t \in {"list", "str"}

\* C10 as stated: with all_pages True, fetch_data stops only when the server
\* has returned a response that is not a 200, or a 200 without a nextPageUrl
\* (absent or empty; a body that is no JSON object has none either).
C10_AsStated ==
  (all_pages /\ Stopped /\ NumResponses >= 1
     /\ responses[NumResponses].kind = "http") =>
    \/ responses[NumResponses].status # HTTP_OK
    \/ responses[NumResponses].body.t # "obj"
    \/ NoNext(responses[NumResponses])

\* C10 amended: with all_pages True and a first request made, fetch_data
\* stops exactly when the last request did not produce a 200 response that
\* carries a non-empty nextPageUrl string and an iterable value under the
\* record key (the request raised, the status was not 200, the body was no
\* JSON object, the record value was a number or null, or the link was absent,
\* null or empty); otherwise the next request is always issued: there is no
\* page limit and no check for a URL already visited.
C10_StopsExactlyWhen ==
  /\ (all_pages /\ NumResponses >= 1) =>
       (Stopped <=> ~Continues(endpoint_path, responses[NumResponses]))
  /\ (pc = "loop" /\ Truthy(full_url) /\ Len(requests) < MaxRequests) => ENABLED Get

\* A page that links to itself: the URL about to be requested was requested
\* before.
C10_Witness ==
  /\ pc = "loop" /\ all_pages /\ Truthy(full_url)
  /\ Len(requests) = 2
  /\ requests[1] # requests[2]
  /\ requests[2] = full_url.v

---------------------------------------------------------------------------
\* determine_record_key called on its own

KeyInit ==
  /\ kpc = "call"
  /\ key_path \in KeyPaths
  /\ key_json \in KeyObjects
  /\ key_result = JNull

DetermineKey ==
  /\ kpc = "call"
  /\ kpc' = "done"
  /\ key_result' = JStr(determine_record_key(key_path, key_json))
  /\ UNCHANGED <<key_path, key_json, fvars, avars>>

InitKey == KeyInit /\ FetchIdle /\ AuthIdle
NextKey == DetermineKey
SpecKey == InitKey /\ [][NextKey]_vars

\* C4 as stated: the result is the last path segment when it is a key of the
\* object, and otherwise the object's first key.
C4_AsStated ==
  kpc = "done" =>
    IF HasKey(key_json, LastSegmentOf(key_path))
      THEN key_result = JStr(LastSegmentOf(key_path))
      ELSE key_json.items # <<>> /\ key_result = JStr(key_json.items[1].k)

\* C4 amended: the result is the last path segment when it is a key of the
\* object; otherwise the object's first key, and the literal "records" when
\* the object has no key at all.
C4_RecordKey ==
  kpc = "done" =>
    IF HasKey(key_json, LastSegmentOf(key_path))
      THEN key_result = JStr(LastSegmentOf(key_path))
      ELSE IF key_json.items # <<>>
        THEN key_result = JStr(key_json.items[1].k)
        ELSE key_result = JStr(RECORDS)

C4_Witness ==
  /\ kpc = "done"
  /\ key_path = <<"q", "/", "r">>
  /\ Len(key_json.items) = 2
  /\ key_json.items[2].k = <<"r">>
  /\ key_result = JStr(<<"r">>)

---------------------------------------------------------------------------
\* load_auth_credentials called on its own

AuthInit ==
  /\ apc = "call"
  /\ auth_data \in AuthObjects
  /\ creds = NoCreds

LoadAuth ==
  /\ apc = "call"
  /\ LET r == load_auth_credentials(auth_data)
     IN /\ apc' = IF r.ok THEN "ok" ELSE "error"
        /\ creds' = r.creds
  /\ UNCHANGED <<auth_data, fvars, kvars>>

InitAuth == AuthInit /\ FetchIdle /\ KeyIdle
NextAuth == LoadAuth
SpecAuth == InitAuth /\ [][NextAuth]_vars

Supplied(auth, field) ==
  field \in DOMAIN auth /\ auth[field].t = "str" /\ auth[field].v # <<>>

\* C5: an object with neither access_token nor accessToken fails with the
\* missing-credentials error and yields no credentials, whatever the
\* instance-URL fields hold.
C5_NoTokenFails ==
  (apc \in {"ok", "error"}
     /\ "access_token" \notin DOMAIN auth_data
     /\ "accessToken" \notin DOMAIN auth_data)
  => apc = "error" /\ creds = NoCreds

C5_Witness ==
  /\ apc = "error"
  /\ DOMAIN auth_data = {"instance_url", "instanceUrl"}
  /\ Supplied(auth_data, "instance_url")
  /\ Supplied(auth_data, "instanceUrl")

\* C6: loading succeeds exactly when a non-empty token is supplied under
\* access_token or accessToken and a non-empty URL under instance_url or
\* instanceUrl; the record returned holds those values unchanged, the
\* snake_case one when both spellings are non-empty; every other object
\* fails with the missing-credentials error.
C6_LoadsExactlyWhen ==
  apc \in {"ok", "error"} =>
    LET tok == Supplied(auth_data, "access_token") \/ Supplied(auth_data, "accessToken")
        url == Supplied(auth_data, "instance_url") \/ Supplied(auth_data, "instanceUrl")
    IN /\ apc = "ok" <=> (tok /\ url)
       /\ apc = "ok" =>
            /\ creds.access_token =
                 IF Supplied(auth_data, "access_token")
                   THEN auth_data["access_token"] ELSE auth_data["accessToken"]
            /\ creds.instance_url =
                 IF Supplied(auth_data, "instance_url")
                   THEN auth_data["instance_url"] ELSE auth_data["instanceUrl"]
       /\ apc = "error" => creds = NoCreds

C6_Witness ==
  /\ apc = "ok"
  /\ DOMAIN auth_data = AuthFields
  /\ auth_data["access_token"] = JStr(<<"k">>)
  /\ auth_data["accessToken"] = JStr(<<"K">>)
  /\ auth_data["instance_url"] = JStr(<<>>)
  /\ creds = [access_token |-> JStr(<<"k">>), instance_url |-> auth_data["instanceUrl"]]

====
